---- MODULE Spec2Model ----
(***************************************************************************)
(* Model of egui_node_graph/src/id_type.rs: UniqueId handles, the Primary  *)
(* map UniqueSlotmap and the Secondary map UniqueSecondaryMap.             *)
(*                                                                         *)
(* The two maps wrap slotmap::SlotMap and slotmap::SecondaryMap (crate     *)
(* slotmap 1.0).  Their behaviour is modelled as that crate implements it: *)
(* slot 0 is a sentinel, a key is (idx, version), an occupied slot has an  *)
(* odd u32 version, remove does version.wrapping_add(1), insert reuses the *)
(* head of the free list with version | 1, and SecondaryMap::insert        *)
(* refuses a key older than the slot's occupant.                           *)
(*                                                                         *)
(* A u32 version is stored as its two's-complement reading (0xFFFFFFFF is  *)
(* -1, 0xFFFFFFFE is -2): the model checker's integers are 32 bit signed.  *)
(***************************************************************************)
EXTENDS Integers, Sequences, FiniteSets, TLC

\* ---------------------------------------------------------------- bounds
\* Primary map instances that may exist at once.
MaxMaps == 2
\* Slots (besides the sentinel) a SlotMap may grow to.
MaxSlots == 2
\* Times an insert may reuse a vacated slot of a new map (its occupied
\* versions then run 1, 3, ..., 2 * MaxReuse + 1).
MaxReuse == 1

Values == {1, 2}
Tags == 1 .. MaxMaps
Insts == 1 .. MaxMaps

\* ------------------------------------------------------------------ data
I32Max == (2^30 - 1) + 2^30
I32Min == (-I32Max) - 1

\* u32::wrapping_add(1) on the two's-complement reading.
WrappingAdd1(v) == IF v = I32Max THEN I32Min ELSE v + 1

\* slotmap's is_older_version(a, b): a.wrapping_sub(b) >= 2^31.
IsOlderVersion(a, b) == (a - b) < 0

\* KeyData::null(): idx u32::MAX, version 1.
NullIdx == -1

UniqueId(idx, version, tag) == [idx |-> idx, version |-> version, tag |-> tag]

\* UniqueId::default(): the null key and MapId 0.
DefaultId == UniqueId(NullIdx, 1, 0)

\* No handle at all (a value that holds none, an operation without a key).
NoHandle == UniqueId(0, 0, 0)

\* A value V: a plain payload n, or (from an insert_with_key factory) the handle
\* it is stored under.
Plain(n) == [n |-> n, h |-> NoHandle]
SelfRef(h) == [n |-> 0, h |-> h]
NoValue == Plain(0)

None == [some |-> FALSE, v |-> NoValue]
Some(v) == [some |-> TRUE, v |-> v]

\* --------------------------------------------------------- slotmap::SlotMap
\* Slot idx of a Vec of slots (Rust indexes from 0, the sequence from 1).
SlotAt(slots, idx) == slots[idx + 1]

Sentinel == [version |-> 0, occ |-> FALSE, value |-> NoValue, next_free |-> 0]

\* SlotMap::with_key()
SlotMapNew == [slots |-> <<Sentinel>>, free_head |-> 1, num_elems |-> 0]

HasSlot(m, idx) == idx >= 0 /\ idx < Len(m.slots)

\* SlotMap::contains_key
SlotMapContains(m, idx, version) ==
    HasSlot(m, idx) /\ SlotAt(m.slots, idx).version = version

\* SlotMap::get
SlotMapGet(m, idx, version) ==
    IF SlotMapContains(m, idx, version)
    THEN Some(SlotAt(m.slots, idx).value)
    ELSE None

\* The key the next SlotMap::insert_with_key hands to its closure and returns.
SlotMapNextKey(m) ==
    IF m.free_head < Len(m.slots)
    THEN [idx |-> m.free_head,
          version |-> IF SlotAt(m.slots, m.free_head).version % 2 = 0
                      THEN SlotAt(m.slots, m.free_head).version + 1
                      ELSE SlotAt(m.slots, m.free_head).version]
    ELSE [idx |-> Len(m.slots), version |-> 1]

\* SlotMap::insert_with_key, the closure's result being value.
SlotMapInsert(m, value) ==
    LET k == SlotMapNextKey(m) IN
    IF m.free_head < Len(m.slots)
    THEN [slots |-> [m.slots EXCEPT ![k.idx + 1] =
                        [version |-> k.version, occ |-> TRUE,
                         value |-> value, next_free |-> 0]],
          free_head |-> SlotAt(m.slots, k.idx).next_free,
          num_elems |-> m.num_elems + 1]
    ELSE [slots |-> Append(m.slots, [version |-> 1, occ |-> TRUE,
                                     value |-> value, next_free |-> 0]),
          free_head |-> k.idx + 1,
          num_elems |-> m.num_elems + 1]

\* SlotMap::remove_from_slot
SlotMapRemoveFromSlot(m, idx) ==
    [slots |-> [m.slots EXCEPT ![idx + 1] =
                  [version |-> WrappingAdd1(@.version), occ |-> FALSE,
                   value |-> NoValue, next_free |-> m.free_head]],
     free_head |-> idx,
     num_elems |-> m.num_elems - 1]

\* SlotMap::remove
SlotMapRemove(m, idx, version) ==
    IF SlotMapContains(m, idx, version)
    THEN [map |-> SlotMapRemoveFromSlot(m, idx),
          ret |-> Some(SlotAt(m.slots, idx).value)]
    ELSE [map |-> m, ret |-> None]

\* SlotMap::get_mut followed by a write through the reference.
SlotMapWrite(m, idx, value) ==
    [m EXCEPT !.slots[idx + 1].value = value]

\* Occupied slot indices, in iteration order.
SlotMapOccupied(m) == {i \in 1 .. Len(m.slots) - 1 : SlotAt(m.slots, i).occ}

\* What a retain closure FnMut(key, &mut V) -> bool does with one entry: the
\* bool it returns, and the value it writes through its &mut V, if it writes.
Drop == [keep |-> FALSE, w |-> None]
Keep == [keep |-> TRUE, w |-> None]
WriteKeep(n) == [keep |-> TRUE, w |-> Some(Plain(n))]
Decisions == {Drop, Keep} \cup {WriteKeep(n) : n \in Values}

\* SlotMap::retain: slots are visited by ascending index; dec[idx] is what the
\* closure does with the entry of slot idx.
RECURSIVE SlotMapRetainFrom(_, _, _)
SlotMapRetainFrom(m, i, dec) ==
    IF i >= Len(m.slots) THEN m
    ELSE IF ~SlotAt(m.slots, i).occ THEN SlotMapRetainFrom(m, i + 1, dec)
    ELSE IF ~dec[i].keep
         THEN SlotMapRetainFrom(SlotMapRemoveFromSlot(m, i), i + 1, dec)
    ELSE IF ~dec[i].w.some THEN SlotMapRetainFrom(m, i + 1, dec)
    ELSE SlotMapRetainFrom(SlotMapWrite(m, i, dec[i].w.v), i + 1, dec)

SlotMapRetain(m, dec) == SlotMapRetainFrom(m, 1, dec)

\* --------------------------------------------------- slotmap::SecondaryMap
SecVacant == [occ |-> FALSE, version |-> 0, value |-> NoValue]

\* SecondaryMap::new()
SecondaryMapNew == [slots |-> <<SecVacant>>, num_elems |-> 0]

\* SecondaryMap::contains_key
SecondaryMapContains(m, idx, version) ==
    HasSlot(m, idx) /\ SlotAt(m.slots, idx).version = version

\* SecondaryMap::get
SecondaryMapGet(m, idx, version) ==
    IF SecondaryMapContains(m, idx, version)
    THEN Some(SlotAt(m.slots, idx).value)
    ELSE None

\* SecondaryMap::remove
SecondaryMapRemove(m, idx, version) ==
    IF SecondaryMapContains(m, idx, version)
    THEN [map |-> [slots |-> [m.slots EXCEPT ![idx + 1] = SecVacant],
                   num_elems |-> m.num_elems - 1],
          ret |-> Some(SlotAt(m.slots, idx).value)]
    ELSE [map |-> m, ret |-> None]

\* slots.extend((len ..= idx).map(|_| vacant))
SecExtend(slots, idx) ==
    [i \in 1 .. (IF idx + 1 > Len(slots) THEN idx + 1 ELSE Len(slots)) |->
        IF i <= Len(slots) THEN slots[i] ELSE SecVacant]

\* SecondaryMap::insert: a null key is ignored; the slot vector grows to idx;
\* an equal version replaces the value and returns the old one; a key older
\* than the occupant is dropped ("Don't replace existing newer values"); any
\* other key takes the slot, evicting an older occupant, and returns None.
SecondaryMapInsert(m, idx, version, value) ==
    IF idx = NullIdx THEN [map |-> m, ret |-> None]
    ELSE
      LET ext == SecExtend(m.slots, idx)
          slot == SlotAt(ext, idx)
          occupied == [occ |-> TRUE, version |-> version, value |-> value]
      IN
      IF slot.version = version
      THEN [map |-> [slots |-> [ext EXCEPT ![idx + 1] = occupied],
                     num_elems |-> m.num_elems],
            ret |-> Some(slot.value)]
      ELSE IF slot.occ /\ IsOlderVersion(version, slot.version)
      THEN [map |-> [slots |-> ext, num_elems |-> m.num_elems], ret |-> None]
      ELSE [map |-> [slots |-> [ext EXCEPT ![idx + 1] = occupied],
                     num_elems |-> IF slot.occ THEN m.num_elems
                                   ELSE m.num_elems + 1],
            ret |-> None]

SecondaryMapOccupied(m) == {i \in 1 .. Len(m.slots) - 1 : SlotAt(m.slots, i).occ}

\* SecondaryMap::retain, dec as for SlotMapRetain.
SecondaryMapRetain(m, dec) ==
    LET drops == {i \in SecondaryMapOccupied(m) : ~dec[i].keep} IN
    [slots |-> [i \in 1 .. Len(m.slots) |->
                  IF (i - 1) \in SecondaryMapOccupied(m)
                  THEN IF ~dec[i - 1].keep THEN SecVacant
                       ELSE IF ~dec[i - 1].w.some THEN m.slots[i]
                       ELSE [m.slots[i] EXCEPT !.value = dec[i - 1].w.v]
                  ELSE m.slots[i]],
     num_elems |-> m.num_elems - Cardinality(drops)]

\* ------------------------------------------------------------------ state
VARIABLES
    prim,      \* Insts -> [live, map, id]: the UniqueSlotmap instances
    sec,       \* [live, map, id, owner]: a UniqueSecondaryMap
    minted,    \* history: [by, h], handle h was returned by an insert on by
    ref,       \* history: Insts -> the entries each map is expected to hold
    removed,   \* history: Insts -> [h, epoch], h was taken out (remove, retain)
    wraps,     \* history: Insts -> slot -> times the slot's version wrapped
    last       \* the last call: the arguments and results the properties read

vars == <<prim, sec, minted, ref, removed, wraps, last>>

NoMap == [live |-> FALSE, map |-> SlotMapNew, id |-> 0]
NoSec == [live |-> FALSE, map |-> SecondaryMapNew, id |-> 0, owner |-> 0]

Live == {i \in Insts : prim[i].live}

\* The handles the caller can hold: those some insert returned, and the default.
Pool == {m.h : m \in minted} \cup {DefaultId}

NoCall ==
    [op |-> "none", map |-> 0, key |-> NoHandle, val |-> NoValue, ret |-> None,
     h |-> NoHandle, cb |-> NoHandle, calls |-> 0, panic |-> FALSE,
     seen |-> {}, pre |-> {}, kept |-> {}, exp |-> {}, rt |-> FALSE]

\* ------------------------------------------------------------ UniqueSlotmap
\* get_random_map_id, the source never returning a value twice: t is a tag no
\* earlier call returned.
GetRandomMapId(t) == t \in Tags \ {prim[i].id : i \in Live}

\* check_key with its comparison inverted.
CheckKeyInverted(p, key) == key.tag # p.id

\* UniqueSlotmap::check_key: is Some (of the inner key) iff the tags agree.
CheckKey(p, key) == key.tag = p.id

\* UniqueSlotmap::get
Get(p, index) ==
    IF CheckKey(p, index) THEN SlotMapGet(p.map, index.idx, index.version)
    ELSE None

\* UniqueSlotmap::contains_key
ContainsKey(p, index) ==
    IF CheckKey(p, index) THEN SlotMapContains(p.map, index.idx, index.version)
    ELSE FALSE

\* Index for UniqueSlotmap: the value, or which panic.
Index(p, index) ==
    IF CheckKey(p, index)
    THEN IF SlotMapContains(p.map, index.idx, index.version)
         THEN [panic |-> "no", v |-> SlotAt(p.map.slots, index.idx).value]
         ELSE [panic |-> "invalid SlotMap key used", v |-> NoValue]
    ELSE [panic |-> "Attempted to access key from another map", v |-> NoValue]

\* remove that returns the value and leaves the entry in the map.
RemoveOfKeeps(p, index) == [map |-> p, ret |-> Get(p, index)]

\* UniqueSlotmap::remove, as a function of the map: the map after, and the result.
RemoveOf(p, index) ==
    IF CheckKey(p, index)
    THEN LET r == SlotMapRemove(p.map, index.idx, index.version) IN
         [map |-> [p EXCEPT !.map = r.map], ret |-> r.ret]
    ELSE [map |-> p, ret |-> None]

\* UniqueSlotmap::iter: the (handle, value) pairs.
Iter(p) ==
    {[h |-> UniqueId(i, SlotAt(p.map.slots, i).version, p.id),
      v |-> SlotAt(p.map.slots, i).value] : i \in SlotMapOccupied(p.map)}

\* UniqueSlotmap::keys
Keys(p) ==
    {UniqueId(i, SlotAt(p.map.slots, i).version, p.id) : i \in SlotMapOccupied(p.map)}

\* An insert_with_key factory FnOnce(UniqueId) -> V: a constant, or the handle.
Const(n) == [self |-> FALSE, n |-> n]
SelfFactory == [self |-> TRUE, n |-> 0]
Apply(f, h) == IF f.self THEN SelfRef(h) ELSE Plain(f.n)

\* The factory's handle built with MapId::default() instead of the map's id.
CallbackKeyUntagged(p) ==
    UniqueId(SlotMapNextKey(p.map).idx, SlotMapNextKey(p.map).version, 0)

\* The handle insert_with_key passes to the factory.
CallbackKey(p) ==
    UniqueId(SlotMapNextKey(p.map).idx, SlotMapNextKey(p.map).version, p.id)

\* The returned handle built with MapId::default() instead of the map's id.
ReturnedKeyUntagged(p) ==
    UniqueId(SlotMapNextKey(p.map).idx, SlotMapNextKey(p.map).version, 0)

\* The handle insert_with_key returns.
ReturnedKey(p) ==
    UniqueId(SlotMapNextKey(p.map).idx, SlotMapNextKey(p.map).version, p.id)

\* UniqueSlotmap::insert_with_key, as a function of the map.
InsertWithKeyOf(p, f) ==
    [map |-> [p EXCEPT !.map = SlotMapInsert(p.map, Apply(f, CallbackKey(p)))],
     cb |-> CallbackKey(p),
     ret |-> ReturnedKey(p)]

\* The handles UniqueSlotmap::retain passes to its closure.
RetainSeen(p) ==
    {UniqueId(i, SlotAt(p.map.slots, i).version, p.id) : i \in SlotMapOccupied(p.map)}

\* retain with the closure's answer negated.
RetainOfInverted(p, dec) ==
    [p EXCEPT !.map = SlotMapRetain(p.map,
        [i \in DOMAIN dec |-> [dec[i] EXCEPT !.keep = ~@]])]

\* UniqueSlotmap::retain, as a function of the map.
RetainOf(p, dec) == [p EXCEPT !.map = SlotMapRetain(p.map, dec)]

\* The model's bound on growth: the insert appends one of MaxSlots slots or
\* reuses a slot whose next occupied version is at most 2 * MaxReuse + 1.
CanInsert(p) ==
    IF p.map.free_head < Len(p.map.slots)
    THEN SlotMapNextKey(p.map).version <= 2 * MaxReuse + 1
    ELSE Len(p.map.slots) - 1 < MaxSlots

\* History: the slots of map i whose version wrapped to 0 between p and q.
WrapsAfter(w, p, q) ==
    [idx \in 1 .. MaxSlots |->
        IF /\ idx < Len(p.map.slots)
           /\ SlotAt(p.map.slots, idx).version = -1
           /\ SlotAt(q.map.slots, idx).version = 0
        THEN w[idx] + 1 ELSE w[idx]]

\* History: what a retain closure leaves of the entries es.
Expected(es, dec) ==
    {[h |-> e.h, v |-> IF dec[e.h.idx].w.some THEN dec[e.h.idx].w.v ELSE e.v] :
        e \in {x \in es : dec[x.h.idx].keep}}

\* Default for UniqueSlotmap: instance i comes to exist, empty, with a fresh tag.
Default(i, t) ==
    /\ ~prim[i].live
    /\ \A j \in Insts : j < i => prim[j].live
    /\ GetRandomMapId(t)
    /\ prim' = [prim EXCEPT ![i] = [live |-> TRUE, map |-> SlotMapNew, id |-> t]]
    /\ last' = [NoCall EXCEPT !.op = "default", !.map = i]
    /\ UNCHANGED <<sec, minted, ref, removed, wraps>>

\* derive(Clone) for UniqueSlotmap: instance i comes to exist as a copy of j,
\* field by field.
Clone(j, i) ==
    /\ prim[j].live
    /\ ~prim[i].live
    /\ \A k \in Insts : k < i => prim[k].live
    /\ prim' = [prim EXCEPT ![i] = [live |-> TRUE, map |-> prim[j].map,
                                    id |-> prim[j].id]]
    /\ ref' = [ref EXCEPT ![i] = ref[j]]
    /\ removed' = [removed EXCEPT ![i] = removed[j]]
    /\ wraps' = [wraps EXCEPT ![i] = wraps[j]]
    /\ last' = [NoCall EXCEPT !.op = "clone", !.map = i]
    /\ UNCHANGED <<sec, minted>>

InsertCall(i, f, op) ==
    LET p == prim[i]
        r == InsertWithKeyOf(p, f)
    IN
    /\ p.live
    /\ CanInsert(p)
    /\ prim' = [prim EXCEPT ![i] = r.map]
    /\ minted' = minted \cup {[by |-> i, h |-> r.ret]}
    /\ ref' = [ref EXCEPT ![i] =
                 {e \in @ : e.h # r.ret} \cup {[h |-> r.ret, v |-> Apply(f, r.ret)]}]
    /\ last' = [NoCall EXCEPT !.op = op, !.map = i, !.val = Apply(f, r.ret),
                              !.h = r.ret, !.cb = r.cb, !.calls = 1,
                              !.pre = Iter(p)]
    /\ UNCHANGED <<sec, removed, wraps>>

\* UniqueSlotmap::insert(value)
Insert(i, n) == InsertCall(i, Const(n), "insert")

\* UniqueSlotmap::insert_with_key(f), f storing the handle it is given.
InsertWithKey(i) == InsertCall(i, SelfFactory, "insert_with_key")

\* UniqueSlotmap::remove(index)
Remove(i, index) ==
    LET p == prim[i]
        r == RemoveOf(p, index)
        rt == last.op = "insert" /\ last.map = i /\ last.h = index
    IN
    /\ p.live
    /\ prim' = [prim EXCEPT ![i] = r.map]
    /\ ref' = [ref EXCEPT ![i] = {e \in @ : e.h # index}]
    /\ removed' = [removed EXCEPT ![i] =
                     IF r.ret.some
                     THEN @ \cup {[h |-> index, epoch |-> wraps[i][index.idx]]}
                     ELSE @]
    /\ wraps' = [wraps EXCEPT ![i] = WrapsAfter(@, p, r.map)]
    /\ last' = [NoCall EXCEPT !.op = "remove", !.map = i, !.key = index,
                              !.ret = r.ret, !.rt = rt,
                              !.val = IF rt THEN last.val ELSE NoValue,
                              !.pre = IF rt THEN last.pre ELSE Iter(p)]
    /\ UNCHANGED <<sec, minted>>

\* UniqueSlotmap::retain(f), dec[idx] being what f does with the entry of slot idx.
Retain(i, dec) ==
    LET p == prim[i]
        q == RetainOf(p, dec)
    IN
    /\ p.live
    /\ prim' = [prim EXCEPT ![i] = q]
    /\ ref' = [ref EXCEPT ![i] = Expected(@, dec)]
    /\ removed' = [removed EXCEPT ![i] =
                     @ \cup {[h |-> e.h, epoch |-> wraps[i][e.h.idx]] :
                                e \in {x \in ref[i] : ~dec[x.h.idx].keep}}]
    /\ wraps' = [wraps EXCEPT ![i] = WrapsAfter(@, p, q)]
    /\ last' = [NoCall EXCEPT !.op = "retain", !.map = i, !.seen = RetainSeen(p),
                              !.pre = Iter(p),
                              !.kept = {e \in Iter(p) : dec[e.h.idx].keep},
                              !.exp = Expected(Iter(p), dec)]
    /\ UNCHANGED <<sec, minted>>

\* UniqueSlotmap::get_mut(index), the caller writing n through a Some.
GetMut(i, index, n) ==
    LET p == prim[i] IN
    /\ p.live
    /\ prim' = [prim EXCEPT ![i] =
                  IF Get(p, index).some
                  THEN [p EXCEPT !.map = SlotMapWrite(p.map, index.idx, Plain(n))]
                  ELSE p]
    /\ ref' = [ref EXCEPT ![i] =
                 {IF e.h = index THEN [h |-> e.h, v |-> Plain(n)] ELSE e : e \in @}]
    /\ last' = [NoCall EXCEPT !.op = "get_mut"]
    /\ UNCHANGED <<sec, minted, removed, wraps>>

\* IndexMut for UniqueSlotmap, the caller writing n through the reference.
IndexMut(i, index, n) ==
    LET p == prim[i]
        ok == Index(p, index).panic = "no"
    IN
    /\ p.live
    /\ prim' = [prim EXCEPT ![i] =
                  IF ok
                  THEN [p EXCEPT !.map = SlotMapWrite(p.map, index.idx, Plain(n))]
                  ELSE p]
    /\ ref' = [ref EXCEPT ![i] =
                 {IF e.h = index THEN [h |-> e.h, v |-> Plain(n)] ELSE e : e \in @}]
    /\ last' = [NoCall EXCEPT !.op = "index_mut", !.panic = ~ok]
    /\ UNCHANGED <<sec, minted, removed, wraps>>

\* UniqueSlotmap::iter_mut, the caller writing n to every value it yields.
IterMut(i, n) ==
    LET p == prim[i] IN
    /\ p.live
    /\ prim' = [prim EXCEPT ![i].map.slots =
                  [k \in 1 .. Len(p.map.slots) |->
                     IF p.map.slots[k].occ
                     THEN [p.map.slots[k] EXCEPT !.value = Plain(n)]
                     ELSE p.map.slots[k]]]
    /\ ref' = [ref EXCEPT ![i] = {[h |-> e.h, v |-> Plain(n)] : e \in @}]
    /\ last' = [NoCall EXCEPT !.op = "iter_mut", !.map = i, !.seen = Keys(p)]
    /\ UNCHANGED <<sec, minted, removed, wraps>>

\* ------------------------------------------------------- UniqueSecondaryMap
\* UniqueSecondaryMap::check_key
SecCheckKey(s, key) == key.tag = s.id

\* get that finds the slot by its index and ignores the key's version.
SecGetByIndex(s, index) ==
    IF SecCheckKey(s, index) /\ HasSlot(s.map, index.idx)
                            /\ SlotAt(s.map.slots, index.idx).occ
    THEN Some(SlotAt(s.map.slots, index.idx).value)
    ELSE None

\* UniqueSecondaryMap::get
SecGet(s, index) ==
    IF SecCheckKey(s, index) THEN SecondaryMapGet(s.map, index.idx, index.version)
    ELSE None

\* UniqueSecondaryMap::contains_key
SecContainsKey(s, index) ==
    IF SecCheckKey(s, index)
    THEN SecondaryMapContains(s.map, index.idx, index.version)
    ELSE FALSE

\* Index for UniqueSecondaryMap: the value, or which panic.
SecIndex(s, index) ==
    IF SecCheckKey(s, index)
    THEN IF SecondaryMapContains(s.map, index.idx, index.version)
         THEN [panic |-> "no", v |-> SlotAt(s.map.slots, index.idx).value]
         ELSE [panic |-> "invalid SecondaryMap key used", v |-> NoValue]
    ELSE [panic |-> "Attempted to access key from another map", v |-> NoValue]

\* UniqueSecondaryMap::remove, as a function of the map.
SecRemoveOf(s, index) ==
    IF SecCheckKey(s, index)
    THEN LET r == SecondaryMapRemove(s.map, index.idx, index.version) IN
         [map |-> [s EXCEPT !.map = r.map], ret |-> r.ret]
    ELSE [map |-> s, ret |-> None]

\* UniqueSecondaryMap::insert, as a function of the map: a tag mismatch panics
\* and stores nothing.
SecInsertOf(s, key, value) ==
    IF SecCheckKey(s, key)
    THEN LET r == SecondaryMapInsert(s.map, key.idx, key.version, value) IN
         [map |-> [s EXCEPT !.map = r.map], ret |-> r.ret, panic |-> FALSE]
    ELSE [map |-> s, ret |-> None, panic |-> TRUE]

\* UniqueSecondaryMap::iter
SecIter(s) ==
    {[h |-> UniqueId(i, SlotAt(s.map.slots, i).version, s.id),
      v |-> SlotAt(s.map.slots, i).value] : i \in SecondaryMapOccupied(s.map)}

\* UniqueSecondaryMap::keys
SecKeys(s) ==
    {UniqueId(i, SlotAt(s.map.slots, i).version, s.id) :
        i \in SecondaryMapOccupied(s.map)}

\* UniqueSecondaryMap::retain, as a function of the map.
SecRetainOf(s, dec) == [s EXCEPT !.map = SecondaryMapRetain(s.map, dec)]

\* UniqueSecondaryMap::new_from_key(map): empty, with the Primary map's tag.
NewFromKey(i) ==
    /\ prim[i].live
    /\ ~sec.live
    /\ sec' = [live |-> TRUE, map |-> SecondaryMapNew, id |-> prim[i].id,
               owner |-> i]
    /\ last' = [NoCall EXCEPT !.op = "new_from_key", !.map = i]
    /\ UNCHANGED <<prim, minted, ref, removed, wraps>>

\* UniqueSecondaryMap::insert(key, value)
SecInsert(key, n) ==
    LET r == SecInsertOf(sec, key, Plain(n)) IN
    /\ sec.live
    /\ sec' = r.map
    /\ last' = [NoCall EXCEPT !.op = "sec_insert", !.key = key, !.val = Plain(n),
                              !.ret = r.ret, !.panic = r.panic,
                              !.pre = SecIter(sec)]
    /\ UNCHANGED <<prim, minted, ref, removed, wraps>>

\* UniqueSecondaryMap::remove(index)
SecRemove(index) ==
    LET r == SecRemoveOf(sec, index) IN
    /\ sec.live
    /\ sec' = r.map
    /\ last' = [NoCall EXCEPT !.op = "sec_remove", !.key = index, !.ret = r.ret]
    /\ UNCHANGED <<prim, minted, ref, removed, wraps>>

\* UniqueSecondaryMap::retain(f)
SecRetain(dec) ==
    /\ sec.live
    /\ sec' = SecRetainOf(sec, dec)
    /\ last' = [NoCall EXCEPT !.op = "sec_retain", !.seen = SecKeys(sec),
                              !.pre = SecIter(sec),
                              !.kept = {e \in SecIter(sec) : dec[e.h.idx].keep},
                              !.exp = Expected(SecIter(sec), dec)]
    /\ UNCHANGED <<prim, minted, ref, removed, wraps>>

\* UniqueSecondaryMap::get_mut(index), the caller writing n through a Some.
SecGetMut(index, n) ==
    /\ sec.live
    /\ sec' = IF SecGet(sec, index).some
              THEN [sec EXCEPT !.map.slots[index.idx + 1].value = Plain(n)]
              ELSE sec
    /\ last' = [NoCall EXCEPT !.op = "sec_get_mut"]
    /\ UNCHANGED <<prim, minted, ref, removed, wraps>>

\* IndexMut for UniqueSecondaryMap, the caller writing n through the reference.
SecIndexMut(index, n) ==
    LET ok == SecIndex(sec, index).panic = "no" IN
    /\ sec.live
    /\ sec' = IF ok
              THEN [sec EXCEPT !.map.slots[index.idx + 1].value = Plain(n)]
              ELSE sec
    /\ last' = [NoCall EXCEPT !.op = "sec_index_mut", !.panic = ~ok]
    /\ UNCHANGED <<prim, minted, ref, removed, wraps>>

\* UniqueSecondaryMap::iter_mut, the caller writing n to every value it yields.
SecIterMut(n) ==
    /\ sec.live
    /\ sec' = [sec EXCEPT !.map.slots =
                 [k \in 1 .. Len(sec.map.slots) |->
                    IF sec.map.slots[k].occ
                    THEN [sec.map.slots[k] EXCEPT !.value = Plain(n)]
                    ELSE sec.map.slots[k]]]
    /\ last' = [NoCall EXCEPT !.op = "sec_iter_mut", !.seen = SecKeys(sec)]
    /\ UNCHANGED <<prim, minted, ref, removed, wraps>>

\* ------------------------------------------------------------ specification
\* The tag get_random_map_id gave the first map. The maps compare tags for
\* equality and nothing else, so which value it is does not matter; the tags
\* drawn later are any of the others.
FirstTag == CHOOSE t \in Tags : \A u \in Tags : t <= u

\* A map on which one slot has been inserted into and removed from 2^31 - 1
\* times: its version is 0xFFFFFFFE, and the first key the slot gave out was
\* (1, 1).
AgedMap ==
    [slots |-> <<Sentinel, [version |-> -2, occ |-> FALSE, value |-> NoValue,
                            next_free |-> 2]>>,
     free_head |-> 1, num_elems |-> 0]

\* The closures a retain is called with: one decision per occupied slot.
Decs(occupied) ==
    {d \in [1 .. MaxSlots -> Decisions] : \A i \in 1 .. MaxSlots :
        i \notin occupied => d[i] = Keep}

\* One UniqueSlotmap exists, new or aged; of an aged one the caller still holds
\* the first handle its slot gave out, removed long ago.
InitPrim ==
    \E aged \in BOOLEAN :
        /\ prim = [i \in Insts |->
                     IF i = 1
                     THEN [live |-> TRUE,
                           map |-> IF aged THEN AgedMap ELSE SlotMapNew,
                           id |-> FirstTag]
                     ELSE NoMap]
        /\ sec = NoSec
        /\ minted = IF aged THEN {[by |-> 1, h |-> UniqueId(1, 1, FirstTag)]}
                     ELSE {}
        /\ ref = [i \in Insts |-> {}]
        /\ removed = [i \in Insts |->
                        IF aged /\ i = 1
                        THEN {[h |-> UniqueId(1, 1, FirstTag), epoch |-> 0]}
                        ELSE {}]
        /\ wraps = [i \in Insts |-> [idx \in 1 .. MaxSlots |-> 0]]
        /\ last = NoCall

\* One new UniqueSlotmap exists.
Init ==
    /\ prim = [i \in Insts |->
                 IF i = 1 THEN [live |-> TRUE, map |-> SlotMapNew, id |-> FirstTag]
                 ELSE NoMap]
    /\ sec = NoSec
    /\ minted = {}
    /\ ref = [i \in Insts |-> {}]
    /\ removed = [i \in Insts |-> {}]
    /\ wraps = [i \in Insts |-> [idx \in 1 .. MaxSlots |-> 0]]
    /\ last = NoCall

\* The operations of one UniqueSlotmap.
PrimaryCall(i) ==
    \/ \E n \in Values : Insert(i, n)
    \/ InsertWithKey(i)
    \/ \E h \in Pool : Remove(i, h)
    \/ \E dec \in Decs(SlotMapOccupied(prim[i].map)) : Retain(i, dec)
    \/ \E h \in Pool, n \in Values : GetMut(i, h, n)
    \/ \E h \in Pool, n \in Values : IndexMut(i, h, n)
    \/ \E n \in Values : IterMut(i, n)

\* The operations of the UniqueSecondaryMap.
SecondaryCall ==
    \/ \E h \in Pool, n \in Values : SecInsert(h, n)
    \/ \E h \in Pool : SecRemove(h)
    \/ \E dec \in Decs(SecondaryMapOccupied(sec.map)) : SecRetain(dec)
    \/ \E h \in Pool, n \in Values : SecGetMut(h, n)
    \/ \E h \in Pool, n \in Values : SecIndexMut(h, n)
    \/ \E n \in Values : SecIterMut(n)

\* Maps coming to exist.
Construct ==
    \/ \E i \in Insts, t \in Tags : Default(i, t)
    \/ \E j \in Insts, i \in Insts : Clone(j, i)
    \/ \E i \in Insts : NewFromKey(i)

Next ==
    \/ Construct
    \/ \E i \in Insts : PrimaryCall(i)
    \/ SecondaryCall

\* The whole system.
Spec == Init /\ [][Next]_vars

\* One UniqueSlotmap, new or aged, under every operation it has.
NextPrim == PrimaryCall(1)
SpecPrim == InitPrim /\ [][NextPrim]_vars

\* One UniqueSlotmap and a UniqueSecondaryMap made from it.
NextSec ==
    \/ NewFromKey(1)
    \/ \E n \in Values : Insert(1, n)
    \/ \E h \in Pool : Remove(1, h)
    \/ \E dec \in Decs(SlotMapOccupied(prim[1].map)) : Retain(1, dec)
    \/ SecondaryCall
SpecSec == Init /\ [][NextSec]_vars

\* Several UniqueSlotmaps, made by Default and by Clone, and a
\* UniqueSecondaryMap made from one of them.
NextIso ==
    \/ Construct
    \/ \E i \in Insts, n \in Values : Insert(i, n)
    \/ \E h \in Pool, n \in Values : SecInsert(h, n)
    \/ \E h \in Pool : SecRemove(h)
SpecIso == Init /\ [][NextIso]_vars

\* ------------------------------------------------------------- properties
\* The map the last call was made on, and what iter() yields of it.
IterAfter == IF last.map = 0 THEN SecIter(sec) ELSE Iter(prim[last.map])

\* What get(key) returned of the Secondary map before the last call.
SecGetBefore(key) ==
    IF \E e \in last.pre : e.h = key
    THEN Some((CHOOSE e \in last.pre : e.h = key).v)
    ELSE None

\* C1 as stated: a handle taken out of a Primary map is dead in every later
\* state: get(h) is None and contains_key(h) is false, whatever insert, remove
\* and retain calls follow.
C1_StaleStaysDead ==
    \A i \in Live : \A r \in removed[i] :
        ~Get(prim[i], r.h).some /\ ~ContainsKey(prim[i], r.h)

\* C1 amended: a handle taken out of a Primary map is dead in every later state
\* in which the version counter of its slot has not wrapped around since.
C1_StaleStaysDeadUntilWrap ==
    \A i \in Live : \A r \in removed[i] :
        r.epoch = wraps[i][r.h.idx] =>
            ~Get(prim[i], r.h).some /\ ~ContainsKey(prim[i], r.h)

\* C1 witness: an insert has just reused the slot of a removed handle, under
\* another handle, and the counter of that slot has not wrapped.
C1_Witness ==
    /\ last.op = "insert"
    /\ \E r \in removed[1] :
          /\ r.h.idx = last.h.idx
          /\ r.h # last.h
          /\ r.epoch = wraps[1][r.h.idx]
          /\ ContainsKey(prim[1], last.h)

\* C3: the handle an insert returned finds the inserted value, through get,
\* contains_key and indexing, right after the insert and for as long as no
\* call takes the entry out; after a write through get_mut, index_mut,
\* iter_mut or a retain closure it finds the value written.
C3_InsertThenLookup ==
    /\ \A i \in Live : \A e \in ref[i] :
          /\ Get(prim[i], e.h) = Some(e.v)
          /\ ContainsKey(prim[i], e.h)
          /\ Index(prim[i], e.h) = [panic |-> "no", v |-> e.v]
    /\ last.op = "insert" =>
          /\ Get(prim[last.map], last.h) = Some(last.val)
          /\ ContainsKey(prim[last.map], last.h)
          /\ Index(prim[last.map], last.h) = [panic |-> "no", v |-> last.val]

\* C3 witness: a remove took another handle out and an inserted entry is
\* still found, in a slot that was reused.
C3_Witness ==
    /\ last.op = "remove"
    /\ last.ret.some
    /\ \E e \in ref[1] : e.h # last.key /\ e.h.version > 1 /\ e.v \in {Plain(n) : n \in Values}

\* C4: remove(h) right after h = insert(v) returns Some(v) and leaves the map
\* with the entries it had before the insert: as many, and every handle that
\* was live still finds its value.
C4_RoundTrip ==
    (last.op = "remove" /\ last.rt) =>
        /\ last.ret = Some(last.val)
        /\ Iter(prim[last.map]) = last.pre
        /\ Cardinality(Keys(prim[last.map])) = Cardinality(last.pre)
        /\ \A e \in last.pre :
              /\ Get(prim[last.map], e.h) = Some(e.v)
              /\ ContainsKey(prim[last.map], e.h)

\* C4 witness: such a round trip on a map that held another entry.
C4_Witness == last.op = "remove" /\ last.rt /\ last.pre # {}

\* C8: the handle insert and insert_with_key return, the handle the factory
\* is given, the handles a retain closure and iter_mut see, and the handles
\* keys() and iter() yield all carry the map's tag; the factory is called once,
\* with the handle the call returns, and its result is stored under it.
C8_HandlesCarryTag ==
    /\ last.op \in {"insert", "insert_with_key"} =>
          /\ last.h.tag = prim[last.map].id
          /\ last.cb = last.h
          /\ last.calls = 1
          /\ Get(prim[last.map], last.h) = Some(last.val)
          /\ last.op = "insert_with_key" => last.val = SelfRef(last.cb)
    /\ last.op \in {"retain", "iter_mut"} =>
          \A h \in last.seen : h.tag = prim[last.map].id
    /\ \A i \in Live :
          /\ \A h \in Keys(prim[i]) : h.tag = prim[i].id
          /\ \A e \in Iter(prim[i]) : e.h.tag = prim[i].id

\* C8 witness: an insert_with_key has stored a value holding its own handle,
\* beside another entry.
C8_Witness ==
    /\ last.op = "insert_with_key"
    /\ Cardinality(Keys(prim[1])) >= 2
    /\ Get(prim[1], last.h) = Some(SelfRef(last.h))

\* C5 as stated: after retain, iter() yields exactly the pairs that were
\* present before the call and for which the closure returned true.
C5_RetainKeepsPairs ==
    last.op \in {"retain", "sec_retain"} => IterAfter = last.kept

\* C5 amended: after retain, iter() yields exactly the entries for which the
\* closure returned true, under the same handles, each with the value the
\* closure left in it (the value it had, unless the closure wrote through its
\* &mut V); every dropped handle has get None and contains_key false.
C5_RetainExact ==
    /\ last.op = "retain" =>
          /\ Iter(prim[last.map]) = last.exp
          /\ {e.h : e \in last.exp} = {e.h : e \in last.kept}
          /\ \A e \in last.pre \ last.kept :
                ~Get(prim[last.map], e.h).some /\ ~ContainsKey(prim[last.map], e.h)
          /\ \A e \in last.kept : ContainsKey(prim[last.map], e.h)
    /\ last.op = "sec_retain" =>
          /\ SecIter(sec) = last.exp
          /\ {e.h : e \in last.exp} = {e.h : e \in last.kept}
          /\ \A e \in last.pre \ last.kept :
                ~SecGet(sec, e.h).some /\ ~SecContainsKey(sec, e.h)
          /\ \A e \in last.kept : SecContainsKey(sec, e.h)

\* C5 witness: a retain on the Secondary map has dropped an entry, kept one
\* and the closure wrote to a kept one.
C5_Witness ==
    /\ last.op = "sec_retain"
    /\ last.kept # {}
    /\ last.kept # last.pre
    /\ last.exp # last.kept

\* C7: an insert on the Secondary map under a handle with the map's tag
\* returns what get(h) returned before, and afterwards get(h) is the value
\* written and contains_key(h) is true.
C7_SecInsertStores ==
    (last.op = "sec_insert" /\ ~last.panic) =>
        /\ last.ret = SecGetBefore(last.key)
        /\ SecGet(sec, last.key) = Some(last.val)
        /\ SecContainsKey(sec, last.key)

\* C9: a remove on the Primary map leaves the Secondary map as it is; the
\* handle a Primary insert returns is not in the Secondary map; and a handle
\* comes to be in the Secondary map only by an insert under that handle.
C9_InsertedHandleAbsent ==
    last.op = "insert" =>
        ~SecGet(sec, last.h).some /\ ~SecContainsKey(sec, last.h)

C2_CrossInstanceIsolation ==
    \A a \in Live, b \in Live : \A m \in minted :
        (a # b /\ m.by = a) =>
            /\ ~Get(prim[b], m.h).some
            /\ ~ContainsKey(prim[b], m.h)
            /\ RemoveOf(prim[b], m.h) = [map |-> prim[b], ret |-> None]
            /\ Index(prim[b], m.h).panic # "no"
            /\ ContainsKey(prim[a], m.h) => Index(prim[a], m.h).panic = "no"

\* C6: the Secondary map carries the tag of the Primary map it was made from;
\* under a handle minted by another Primary map its insert panics and stores
\* nothing, and get, contains_key and remove answer None, false and None and
\* change nothing; every key it yields carries that tag.
C6_SecondaryProvenance ==
    sec.live =>
        /\ sec.id = prim[sec.owner].id
        /\ \A k \in SecKeys(sec) : k.tag = prim[sec.owner].id
        /\ \A m \in minted : m.by # sec.owner =>
              /\ \A n \in Values :
                    SecInsertOf(sec, m.h, Plain(n)) =
                        [map |-> sec, ret |-> None, panic |-> TRUE]
              /\ ~SecGet(sec, m.h).some
              /\ ~SecContainsKey(sec, m.h)
              /\ SecRemoveOf(sec, m.h) = [map |-> sec, ret |-> None]

\* C10: no two Primary map instances carry the same tag, however they came to
\* exist, and a handle a map's get finds was returned by an insert on that map.
C10_TagsUnique ==
    /\ \A i \in Live, j \in Live : i # j => prim[i].id # prim[j].id
    /\ \A i \in Live : \A h \in Pool :
          Get(prim[i], h).some => [by |-> i, h |-> h] \in minted

====
